---------------------------- MODULE Spec2Model ----------------------------
(***************************************************************************)
(* A model of the diagnostic capture and crash-reporting code of           *)
(* commands/commands.go (git-lfs): the two dual-sink writers and the       *)
(* shared transcript buffer, the dispatch entry points (Print, Error,      *)
(* Debug, Exit, LoggedError, Panic, ExitWithError) and the panic log       *)
(* writer (handlePanic, logPanic, logPanicToWriter).                       *)
(*                                                                         *)
(* A byte stream is a sequence of tokens (strings); the token "\n" is a    *)
(* line break, so a blank line is a "\n" that follows a "\n".  A format    *)
(* string is a sequence of tokens in which "%s" is a verb.  One step of    *)
(* the model is one call of a dispatch entry point by the command that is  *)
(* running; the calls are sequential (a single thread of control).         *)
(***************************************************************************)
EXTENDS Integers, Sequences, FiniteSets, TLC

VARIABLES
    Debugging,      \* the global debug flag
    gitFails,       \* environment: git.Config.Version() returns an error
    ErrorBuffer,    \* the transcript buffer (*bytes.Buffer)
    Stdout,         \* bytes received by the real os.Stdout
    Stderr,         \* bytes received by the real os.Stderr
    files,          \* the file system under config.LocalLogDir: path -> bytes
    now,            \* the clock read by time.Now()
    exited,         \* os.Exit was called
    exitStatus,     \* the status given to os.Exit (0 while running)
    file,           \* LoggedError's local `file`: what handlePanic returned
    call,           \* the dispatch call the last step made, with its inputs
    ncalls,         \* the number of dispatch calls made
    shown,          \* history: the writes the real streams received, in order
    sunk            \* history: the bytes handed to the dual-sink writers, in order

vars == <<Debugging, gitFails, ErrorBuffer, Stdout, Stderr, files, now, exited,
          exitStatus, file, call, ncalls, shown, sunk>>

----------------------------------------------------------------------------
(* Bounds and inputs *)

\* The number of dispatch calls one run of a command makes.
MaxCalls == 2

\* The status every os.Exit of the dispatch surface passes.
ExitCode == 2

NL == "\n"

\* Format strings: a message with the verb %s in it.
Formats == { <<"wrote ", "%s">> }

\* Variadic argument lists: none, or the one argument the verb takes.
ArgLists == { <<>>, <<"a.bin">> }

\* The (format, args) pairs the callers pass.
Messages == Formats \X ArgLists

\* Outcomes of the two file-system calls of logPanic.
FsOK          == "ok"
FsMkdirFails  == "MkdirAll fails"
FsCreateFails == "Create fails"
FsOutcomes    == {FsOK, FsMkdirFails, FsCreateFails}

\* The outcomes to tell apart for a call that logs err: with a nil error
\* handlePanic returns before the file system is touched.
FsFor(err)    == IF err.nil THEN {FsOK} ELSE FsOutcomes

\* os.Args: the program path (as its components) and the arguments.
OsArgs == << <<"usr", "bin", "git-lfs">>, "push", "origin" >>

\* config.LocalLogDir
LocalLogDir == ".git/lfs/logs"

----------------------------------------------------------------------------
(* Error values *)

\* An error value: its Error() text, what errutil.IsFatalError and
\* errutil.GetInnerError answer for it, and whether it has the ErrorWithStack
\* capability (with its InnerError(), Context() and Stack()).
MkErr(isnil, msg, fatal, inner, stack) ==
    [nil |-> isnil, msg |-> msg, fatal |-> fatal, inner |-> inner, stack |-> stack]

Nil == MkErr(TRUE, <<>>, FALSE, <<>>, FALSE)

ErrPlain      == MkErr(FALSE, <<"not found 100", "%s">>, FALSE, <<>>, FALSE)
ErrWrapped    == MkErr(FALSE, <<"read failed">>, FALSE, <<"EOF ", "%s">>, TRUE)
ErrFatal      == MkErr(FALSE, <<"network unreachable">>, TRUE, <<>>, FALSE)
ErrFatalStack == MkErr(FALSE, <<"fatal ", "%s">>, TRUE, <<"reset">>, TRUE)

Errors == {Nil, ErrPlain, ErrWrapped, ErrFatal, ErrFatalStack}


----------------------------------------------------------------------------
(* Writers *)

\* An io.Writer value.  `sinks` is used by a MultiWriter only.
Writer(kind, name, sinks) == [kind |-> kind, name |-> name, sinks |-> sinks]

os_Stdout    == Writer("stream", "os.Stdout", <<>>)
os_Stderr    == Writer("stream", "os.Stderr", <<>>)
BufferWriter == Writer("buffer", "ErrorBuffer", <<>>)
FileWriter(path) == Writer("file", path, <<>>)

\* ErrorWriter = io.MultiWriter(os.Stderr, ErrorBuffer)
ErrorWriter  == Writer("multi", "ErrorWriter", <<os_Stderr, BufferWriter>>)

\* A faulty OutputWriter: the transcript buffer is not among its sinks.
OutputWriter_StdoutOnly == Writer("multi", "OutputWriter", <<os_Stdout>>)

\* OutputWriter = io.MultiWriter(os.Stdout, ErrorBuffer)
OutputWriter == Writer("multi", "OutputWriter", <<os_Stdout, BufferWriter>>)

\* The state the handlers read and write, as one record, so that a handler is
\* a function from the state before it to the state after it.
World == [ErrorBuffer |-> ErrorBuffer, Stdout |-> Stdout, Stderr |-> Stderr,
          files |-> files, now |-> now, exited |-> exited,
          exitStatus |-> exitStatus, file |-> file, shown |-> shown,
          sunk |-> sunk]

\* Write of the bytes p on a writer that is not a MultiWriter; `via` names the
\* writer the caller held.  Every write succeeds.
WriteOne(s, w, via, p) ==
    CASE w.name = "os.Stdout" ->
            [s EXCEPT !.Stdout = @ \o p,
                      !.shown = Append(@, [fd |-> w.name, via |-> via, data |-> p])]
      [] w.name = "os.Stderr" ->
            [s EXCEPT !.Stderr = @ \o p,
                      !.shown = Append(@, [fd |-> w.name, via |-> via, data |-> p])]
      [] w.kind = "buffer" ->
            [s EXCEPT !.ErrorBuffer = @ \o p]
      [] OTHER ->
            [s EXCEPT !.files = [@ EXCEPT ![w.name] = @ \o p]]

\* io.MultiWriter's Write: each sink in turn receives the whole slice.
RECURSIVE WriteAll(_, _, _, _)
WriteAll(s, sinks, via, p) ==
    IF sinks = <<>> THEN s
    ELSE WriteAll(WriteOne(s, Head(sinks), via, p), Tail(sinks), via, p)

\* w.Write(p)
Write(s, w, p) ==
    IF w.kind = "multi"
    THEN WriteAll([s EXCEPT !.sunk = @ \o p], w.sinks, w.name, p)
    ELSE WriteOne(s, w, w.name, p)

\* fmt.Sprintf(format, args...): each %s takes the next argument; a verb with
\* no argument left prints %!s(MISSING), arguments left over print %!(EXTRA ...).
RECURSIVE Sprintf(_, _)
Sprintf(format, args) ==
    IF format = <<>>
    THEN IF args = <<>> THEN <<>> ELSE <<"%!(EXTRA string=">> \o args \o <<")">>
    ELSE IF Head(format) = "%s"
         THEN IF args = <<>>
              THEN <<"%!s(MISSING)">> \o Sprintf(Tail(format), args)
              ELSE <<Head(args)>> \o Sprintf(Tail(format), Tail(args))
         ELSE <<Head(format)>> \o Sprintf(Tail(format), args)

\* fmt.Fprintln(w, line)
Fprintln(s, w, line) == Write(s, w, line \o <<NL>>)

\* os.Exit(code)
os_Exit(s, code) == [s EXCEPT !.exited = TRUE, !.exitStatus = code]

----------------------------------------------------------------------------
(* The dispatch surface: Error, Print, Exit, Debug *)

\* A faulty Error: the format is expanded even when there are no arguments.
Error_AlwaysSprintf(s, format, args) ==
    Fprintln(s, ErrorWriter, Sprintf(format, args))

Error(s, format, args) ==
    LET line == IF Len(args) > 0 THEN Sprintf(format, args) ELSE format
    IN  Fprintln(s, ErrorWriter, line)

Print_(s, format, args) ==
    LET line == Sprintf(format, args)
    IN  Fprintln(s, OutputWriter, line)

Exit(s, format, args) == os_Exit(Error(s, format, args), ExitCode)

\* log.Printf on the standard logger, whose output init() sets to ErrorWriter:
\* one Write of the timestamp prefix, the formatted text and a line break.
log_Printf(s, format, args) ==
    Write(s, ErrorWriter, <<"2006/01/02 15:04:05 ">> \o Sprintf(format, args) \o <<NL>>)

Debug(s, format, args) ==
    IF ~Debugging THEN s ELSE log_Printf(s, format, args)

----------------------------------------------------------------------------
(* External collaborators of the panic log writer *)

\* errutil.IsFatalError(err)
IsFatalError(err) == err.fatal

\* errutil.GetInnerError(err): the inner error, or Nil.
GetInnerError(err) ==
    IF err.inner = <<>> THEN Nil ELSE MkErr(FALSE, err.inner, FALSE, <<>>, FALSE)

\* loggedError.(ErrorWithStack): the type assertion's ok.
IsErrorWithStack(err) == err.stack

\* The three methods of ErrorWithStack.
err_InnerError(err) == err.inner
err_Context(err)    == << <<"retry", "3">> >>
err_Stack(err)      == <<"goroutine 1 [running]: errutil.newWrappedError", NL>>

\* errutil.Stack(): the stack of the goroutine that is logging.
errutil_Stack == <<"goroutine 1 [running]: commands.logPanicToWriter", NL>>

\* config.VersionDesc
VersionDesc == "git-lfs/1.0.0 (GitHub; linux amd64; go 1.6)"

\* git.Config.Version(): the version line, or an error.
git_Version ==
    IF gitFails THEN [v |-> "", err |-> <<"exec: git: executable file not found in $PATH">>]
    ELSE [v |-> "git version 2.40", err |-> <<>>]

\* lfs.Environ()
lfs_Environ == <<"LocalWorkingDir=/repo", "GIT_TERMINAL_PROMPT=0">>

\* The errors of os.MkdirAll and os.Create (*os.PathError): plain errors.
MkdirErr == MkErr(FALSE, <<"mkdir ", LocalLogDir, ": not a directory">>, FALSE, <<>>, FALSE)
CreateErr(path) == MkErr(FALSE, <<"open ", path, ": permission denied">>, FALSE, <<>>, FALSE)

\* A faulty Base: the first component instead of the last.
Base_First(path) == IF path = <<>> THEN "." ELSE path[1]

\* filepath.Base of a path given as its components.
Base(path) == IF path = <<>> THEN "." ELSE path[Len(path)]

\* strings.Join(elems, sep)
RECURSIVE Join(_, _)
Join(elems, sep) ==
    IF elems = <<>> THEN <<>>
    ELSE IF Len(elems) = 1 THEN <<elems[1]>>
    ELSE <<elems[1], sep>> \o Join(Tail(elems), sep)

\* now.Format("20060102T150405.999999999"), joined to the log directory with
\* the suffix ".log".
LogPath(t) == LocalLogDir \o "/" \o ToString(t) \o ".log"

----------------------------------------------------------------------------
(* The panic log writer *)

\* The loop over err.Context(): one "key=value" line per entry.
RECURSIVE WriteContext(_, _, _)
WriteContext(s, w, ctx) ==
    IF ctx = <<>> THEN s
    ELSE WriteContext(Write(s, w, <<Head(ctx)[1], "=", Head(ctx)[2], NL>>), w, Tail(ctx))

\* A faulty environment loop: it writes nothing.
WriteEnviron_None(s, w, env) == s

\* The loop over lfs.Environ(): one line per variable.
RECURSIVE WriteEnviron(_, _, _)
WriteEnviron(s, w, env) ==
    IF env = <<>> THEN s
    ELSE WriteEnviron(Fprintln(s, w, <<Head(env)>>), w, Tail(env))

logPanicToWriter(s, w, loggedError) ==
    LET gitV == IF git_Version.err # <<>>
                THEN <<"Error getting git version: ">> \o git_Version.err
                ELSE <<git_Version.v>>
        s1  == Fprintln(s, w, <<VersionDesc>>)
        s2  == Fprintln(s1, w, gitV)
        \* the command that was run
        s3  == Fprintln(s2, w, <<>>)
        s4  == Write(s3, w, <<"$ ", Base(OsArgs[1])>>)
        s5  == IF Len(OsArgs) > 0
               THEN Write(s4, w, <<" ">> \o Join(Tail(OsArgs), " "))
               ELSE s4
        s6  == Fprintln(s5, w, <<>>)
        \* the error message and stack trace
        s7  == CHOOSE x \in { Write(v, w, v.ErrorBuffer) : v \in {s6} } : TRUE
        s8  == Fprintln(s7, w, <<>>)
        s9  == Fprintln(s8, w, loggedError.msg)
        s10 == IF IsErrorWithStack(loggedError)
               THEN LET a == Fprintln(s9, w, err_InnerError(loggedError))
                        b == WriteContext(a, w, err_Context(loggedError))
                    IN  Write(b, w, err_Stack(loggedError))
               ELSE Write(s9, w, errutil_Stack)
        s11 == Fprintln(s10, w, <<NL, "ENV:">>)
    IN  WriteEnviron(s11, w, lfs_Environ)

\* logPanic: the state after it and the path it returns ("" when no file was
\* created), for the outcome fs of os.MkdirAll and os.Create.
logPanic(s, loggedError, fs) ==
    LET full == LogPath(s.now)
        s0   == [s EXCEPT !.now = @ + 1]
    IN  IF fs = FsMkdirFails
        THEN LET a == Write(s0, os_Stderr,
                            <<"Unable to log panic to ", LocalLogDir, ": ">>
                            \o MkdirErr.msg \o <<NL, NL>>)
             IN  [s |-> logPanicToWriter(a, os_Stderr, loggedError), full |-> ""]
        ELSE IF fs = FsCreateFails
        THEN LET a == logPanicToWriter(s0, os_Stderr, loggedError)
                 \* the deferred function, run when logPanic returns
                 b == Write(a, os_Stderr, <<"Unable to log panic to ", full, NL, NL>>)
             IN  [s |-> logPanicToWriter(b, os_Stderr, CreateErr(full)), full |-> ""]
        ELSE LET a == [s0 EXCEPT !.files = (full :> <<>>) @@ @]
             IN  [s |-> logPanicToWriter(a, FileWriter(full), loggedError), full |-> full]

handlePanic(s, err, fs) ==
    IF err = Nil THEN [s |-> s, full |-> ""] ELSE logPanic(s, err, fs)

\* A faulty end of LoggedError: the location of the log is not reported.
ReportLog_Silent(r) == [r.s EXCEPT !.file = r.full]

\* A faulty end of LoggedError: the location goes through the error dual-sink.
ReportLog_ViaErrorWriter(r) ==
    LET b == [r.s EXCEPT !.file = r.full]
    IN  IF Len(r.full) > 0
        THEN Write(b, ErrorWriter,
                   <<NL, "Errors logged to ", r.full, NL,
                     "Use git lfs logs last to view the log.", NL>>)
        ELSE b

\* The end of LoggedError: r is what handlePanic gave (the state after it and
\* the path it returned).
ReportLog(r) ==
    LET b == [r.s EXCEPT !.file = r.full]
    IN  IF Len(r.full) > 0
        THEN Write(b, os_Stderr,
                   <<NL, "Errors logged to ", r.full, NL,
                     "Use git lfs logs last to view the log.", NL>>)
        ELSE b

\* A faulty LoggedError: it ends the process, as Panic does.
LoggedError_Exits(s, err, format, args, fs) ==
    os_Exit(CHOOSE x \in { ReportLog(r) :
                             r \in {handlePanic(Error(s, format, args), err, fs)} } : TRUE,
            ExitCode)

LoggedError(s, err, format, args, fs) ==
    CHOOSE x \in { ReportLog(r) : r \in {handlePanic(Error(s, format, args), err, fs)} } : TRUE

Panic(s, err, format, args, fs) ==
    os_Exit(LoggedError(s, err, format, args, fs), ExitCode)

\* A faulty ExitWithError: every error takes the Panic path.
ExitWithError_AlwaysPanic(s, err, fs) == Panic(s, err, err.msg, <<>>, fs)

ExitWithError(s, err, fs) ==
    IF Debugging \/ IsFatalError(err)
    THEN Panic(s, err, err.msg, <<>>, fs)
    ELSE LET inner == GetInnerError(err)
             a == IF inner # Nil THEN Error(s, inner.msg, <<>>) ELSE s
         IN  Exit(a, err.msg, <<>>)

----------------------------------------------------------------------------
(* The state machine: one step is one call of a dispatch entry point *)

Init ==
    /\ Debugging \in BOOLEAN
    /\ gitFails \in BOOLEAN
    /\ ErrorBuffer = <<>>
    /\ Stdout = <<>>
    /\ Stderr = <<>>
    /\ files = <<>>
    /\ now = 0
    /\ exited = FALSE
    /\ exitStatus = 0
    /\ file = ""
    /\ call = [op |-> "none", err |-> Nil, format |-> <<>>, args |-> <<>>, fs |-> FsOK]
    /\ ncalls = 0
    /\ shown = <<>>
    /\ sunk = <<>>

\* The command is still running and makes one more call.
CanCall == ~exited /\ ncalls < MaxCalls

\* The step of the call c that takes the state to the world w.
Step(c, w) == \E t \in {w} :
    /\ call' = c
    /\ ncalls' = ncalls + 1
    /\ ErrorBuffer' = t.ErrorBuffer
    /\ Stdout' = t.Stdout
    /\ Stderr' = t.Stderr
    /\ files' = t.files
    /\ now' = t.now
    /\ exited' = t.exited
    /\ exitStatus' = t.exitStatus
    /\ file' = t.file
    /\ shown' = t.shown
    /\ sunk' = t.sunk
    /\ UNCHANGED <<Debugging, gitFails>>

Call(op, err, m, fs) == [op |-> op, err |-> err, format |-> m[1], args |-> m[2], fs |-> fs]

CallPrint ==
    /\ CanCall
    /\ \E m \in Messages :
          Step(Call("Print", Nil, m, FsOK), Print_(World, m[1], m[2]))

CallError ==
    /\ CanCall
    /\ \E m \in Messages :
          Step(Call("Error", Nil, m, FsOK), Error(World, m[1], m[2]))

CallDebug ==
    /\ CanCall
    /\ \E m \in Messages :
          Step(Call("Debug", Nil, m, FsOK), Debug(World, m[1], m[2]))

CallExit ==
    /\ CanCall
    /\ \E m \in Messages :
          Step(Call("Exit", Nil, m, FsOK), Exit(World, m[1], m[2]))

CallLoggedError ==
    /\ CanCall
    /\ \E err \in Errors, m \in Messages :
       \E fs \in FsFor(err) :
          Step(Call("LoggedError", err, m, fs), LoggedError(World, err, m[1], m[2], fs))

CallPanic ==
    /\ CanCall
    /\ \E err \in Errors, m \in Messages :
       \E fs \in FsFor(err) :
          Step(Call("Panic", err, m, fs), Panic(World, err, m[1], m[2], fs))

\* ExitWithError calls err.Error() on every path: its callers pass a non-nil
\* error.
CallExitWithError ==
    /\ CanCall
    /\ \E err \in Errors \ {Nil}, fs \in FsOutcomes :
          Step(Call("ExitWithError", err, <<err.msg, <<>>>>, fs), ExitWithError(World, err, fs))

Next ==
    \/ CallPrint
    \/ CallError
    \/ CallDebug
    \/ CallExit
    \/ CallLoggedError
    \/ CallPanic
    \/ CallExitWithError

Spec == Init /\ [][Next]_vars

----------------------------------------------------------------------------
(* Vocabulary of the properties *)

\* s is a prefix of t.
IsPrefix(s, t) == Len(s) <= Len(t) /\ SubSeq(t, 1, Len(s)) = s

\* What t holds after its prefix s.
Delta(s, t) == SubSeq(t, Len(s) + 1, Len(t))

\* The number of tokens of the stream s equal to tok.
Count(s, tok) == Cardinality({i \in DOMAIN s : s[i] = tok})

\* The bytes of a sequence of writes, in order.
RECURSIVE Bytes(_)
Bytes(ws) == IF ws = <<>> THEN <<>> ELSE Head(ws).data \o Bytes(Tail(ws))

\* A write a real stream received through one of the two dual-sink writers.
ViaDualSink(c) == c.via \in {"ErrorWriter", "OutputWriter"}

\* The call c ran logPanic: it logs a non-nil error.
RanLogPanic(c) ==
    /\ ~c.err.nil
    /\ \/ c.op \in {"LoggedError", "Panic"}
       \/ c.op = "ExitWithError" /\ (Debugging \/ c.err.fatal)

\* The sections of a diagnostic log, each with its line break.
VersionSection == <<VersionDesc, NL>>
VcsSection ==
    IF gitFails
    THEN <<"Error getting git version: ", "exec: git: executable file not found in $PATH", NL>>
    ELSE <<"git version 2.40", NL>>
CommandSection == <<"$ ", "git-lfs", " ", "push", " ", "origin", NL>>
MessageSection(err) == err.msg \o <<NL>>
DetailSection(err) ==
    IF err.stack
    THEN err.inner \o <<NL>> \o <<"retry", "=", "3", NL>>
         \o <<"goroutine 1 [running]: errutil.newWrappedError", NL>>
    ELSE <<"goroutine 1 [running]: commands.logPanicToWriter", NL>>
EnvSection ==
    <<NL, "ENV:", NL>> \o <<"LocalWorkingDir=/repo", NL, "GIT_TERMINAL_PROMPT=0", NL>>

\* A log body for the error err and the transcript tr, with the transcript
\* right after the line break that ends the command line.
LogBody(tr, err) ==
    VersionSection \o VcsSection \o <<NL>> \o CommandSection
    \o tr \o <<NL>> \o MessageSection(err) \o DetailSection(err) \o EnvSection

\* The same with a blank line between the command line and the transcript.
LogBodyBlankLine(tr, err) ==
    VersionSection \o VcsSection \o <<NL>> \o CommandSection \o <<NL>>
    \o tr \o <<NL>> \o MessageSection(err) \o DetailSection(err) \o EnvSection

\* The number of diagnostic log artifacts: log files, and records on the real
\* error stream (each has one ENV: marker).
Artifacts == Cardinality(DOMAIN files) + Count(Stderr, "ENV:")

\* The two fallback warnings and the location notice.
MkdirWarning ==
    <<"Unable to log panic to ", LocalLogDir, ": ", "mkdir ", LocalLogDir,
      ": not a directory", NL, NL>>
CreateWarning(path) == <<"Unable to log panic to ", path, NL, NL>>
LocationNotice(path) ==
    <<NL, "Errors logged to ", path, NL, "Use git lfs logs last to view the log.", NL>>

----------------------------------------------------------------------------
(* The claims *)

\* C1: the transcript buffer is the concatenation, in call order, of
\* everything written through either dual-sink writer, and a step only ever
\* appends to it (composing a log leaves what it held in place).
C1_TranscriptIsConcatenation ==
    /\ [](ErrorBuffer = sunk)
    /\ [][IsPrefix(ErrorBuffer, ErrorBuffer')]_vars

\* C1 witness: a line on each dual-sink writer, then a log composed from it.
C1_Witness ==
    /\ call.op = "LoggedError" /\ call.fs = FsOK /\ ~call.err.nil
    /\ Stdout # <<>>
    /\ Len(ErrorBuffer) > Len(Stdout)
    /\ file \in DOMAIN files

\* C2 (as claimed): ExitWithError of a fatal error makes exactly one
\* diagnostic log artifact, a log file or a record on the real error stream,
\* and ends the process with status 2, whatever the debug flag and the
\* outcome of creating the directory and the file.
C2_ExactlyOneArtifact ==
    [][(call'.op = "ExitWithError" /\ call'.err.fatal)
        => /\ Artifacts' = Artifacts + 1
           /\ exited' /\ exitStatus' = 2]_vars

\* C3 (as claimed): ExitWithError of a non-fatal error with no inner cause
\* prints exactly one error line, the error's message, through the error
\* dual-sink and creates no log file, whatever the debug flag.
C3_OneLineNoLog_AnyDebug ==
    [][(call'.op = "ExitWithError" /\ ~call'.err.fatal /\ call'.err.inner = <<>>)
        => /\ ErrorBuffer' = ErrorBuffer \o call'.err.msg \o <<NL>>
           /\ files' = files]_vars

\* C3 (amended): with the debug flag unset, ExitWithError of a non-fatal
\* error with no inner cause prints exactly one error line, the error's
\* message, through the error dual-sink, and creates no log file.
C3_OneLineNoLog ==
    [][(call'.op = "ExitWithError" /\ ~call'.err.fatal /\ call'.err.inner = <<>>
        /\ ~Debugging)
        => /\ ErrorBuffer' = ErrorBuffer \o call'.err.msg \o <<NL>>
           /\ Stderr' = Stderr \o call'.err.msg \o <<NL>>
           /\ files' = files]_vars

\* C3 witness: ExitWithError of such an error has run with the flag unset.
C3_Witness ==
    /\ call.op = "ExitWithError" /\ ~call.err.fatal /\ call.err.inner = <<>>
    /\ ~Debugging /\ exited

C5_MkdirFallback ==
    [][(RanLogPanic(call') /\ call'.fs = FsMkdirFails)
        => /\ file' = ""
           /\ files' = files
           /\ Stderr' = Stderr \o Delta(ErrorBuffer, ErrorBuffer') \o MkdirWarning
                        \o LogBody(ErrorBuffer', call'.err)]_vars

\* C5 witness: a call has logged an error while the directory could not be made.
C5_Witness ==
    /\ call.op \in {"LoggedError", "Panic", "ExitWithError"}
    /\ call.fs = FsMkdirFails /\ ~call.err.nil
    /\ Count(Stderr, "ENV:") > 0

\* What LoggedError's caller can see of the log when the call returns: a log
\* file exists and its location is the last thing on the real error stream,
\* or no file was made and a fallback warning went to the real error stream.
LogReported ==
    \/ /\ file' # ""
       /\ file' \in DOMAIN files' /\ file' \notin DOMAIN files
       /\ IsPrefix(Stderr, Stderr')
       /\ Len(Delta(Stderr, Stderr')) >= Len(LocationNotice(file'))
       /\ SubSeq(Stderr', Len(Stderr') - Len(LocationNotice(file')) + 1, Len(Stderr'))
            = LocationNotice(file')
    \/ /\ file' = ""
       /\ IsPrefix(Stderr, Stderr')
       /\ Count(Delta(Stderr, Stderr'), "Unable to log panic to ") = 1

\* The message of the call c as Error writes it.
ErrorLine(c) ==
    (IF Len(c.args) > 0 THEN Sprintf(c.format, c.args) ELSE c.format) \o <<NL>>

\* C6 (as claimed): every call of LoggedError, for any err, nil included,
\* writes the message through the error dual-sink and returns with the log
\* location or the fallback warning reported.
C6_AlwaysReported_AnyErr ==
    [][(call'.op = "LoggedError")
        => /\ ErrorBuffer' = ErrorBuffer \o ErrorLine(call')
           /\ LogReported]_vars

\* C6 (amended): every call of LoggedError with a non-nil err writes the
\* message through the error dual-sink and returns with the log location or
\* the fallback warning reported.
C6_AlwaysReported ==
    [][(call'.op = "LoggedError" /\ ~call'.err.nil)
        => /\ ErrorBuffer' = ErrorBuffer \o ErrorLine(call')
           /\ LogReported]_vars

\* C6 witness: LoggedError has returned after a log file was made, with a
\* second call after a first.
C6_Witness ==
    /\ call.op = "LoggedError" /\ ~call.err.nil
    /\ file \in DOMAIN files
    /\ ncalls = 2

\* C7 (as claimed): the transcript buffer is, byte for byte and in order,
\* everything shown on the real output and error streams.
C7_BufferIsAllShown == ErrorBuffer = Bytes(shown)

\* C7 (amended): the transcript buffer is, byte for byte and in order, what
\* was shown on the real streams through the two dual-sink writers (the
\* message text of Print, Error, Exit, LoggedError, Panic and Debug); the
\* location notice, the fallback warnings and a fallback record go to the
\* real error stream alone and are not in the buffer.
C7_BufferIsDualSinkShown ==
    /\ ErrorBuffer = Bytes(SelectSeq(shown, ViaDualSink))
    /\ \A i \in DOMAIN ErrorBuffer :
          ErrorBuffer[i] \notin {"Errors logged to ", "Unable to log panic to ",
                                 VersionDesc, "ENV:"}

\* C7 witness: a location notice has been shown after text of both writers.
C7_Witness ==
    /\ Count(Stderr, "Errors logged to ") > 0
    /\ Stdout # <<>>
    /\ ErrorBuffer # <<>>

\* C8: LoggedError returns with the process running, for every err and every
\* outcome; of the dispatch entry points only Panic, Exit and ExitWithError
\* end the process, and they end it with status 2.
C8_LoggedErrorReturns ==
    /\ call.op = "LoggedError" => ~exited /\ exitStatus = 0
    /\ exited <=> call.op \in {"Panic", "Exit", "ExitWithError"}
    /\ exited => exitStatus = 2

\* C8 witness: LoggedError has returned from a fallback, the process running.
C8_Witness ==
    /\ call.op = "LoggedError" /\ call.err.fatal /\ call.fs = FsCreateFails
    /\ ~exited

\* C9: with the debug flag unset, ExitWithError of a non-fatal error with an
\* inner cause writes the inner cause's message and then the error's own
\* through the error dual-sink, ends the process with status 2, and makes no
\* log file and no record.
C9_InnerThenOuter ==
    [][(call'.op = "ExitWithError" /\ ~Debugging /\ ~call'.err.fatal
        /\ call'.err.inner # <<>>)
        => /\ ErrorBuffer' = ErrorBuffer \o call'.err.inner \o <<NL>>
                             \o call'.err.msg \o <<NL>>
           /\ Stderr' = Stderr \o call'.err.inner \o <<NL>> \o call'.err.msg \o <<NL>>
           /\ files' = files
           /\ Artifacts' = Artifacts
           /\ exited' /\ exitStatus' = 2]_vars

\* C9 witness: ExitWithError of such an error has run with the flag unset.
C9_Witness ==
    /\ call.op = "ExitWithError" /\ ~Debugging /\ ~call.err.fatal
    /\ call.err.inner # <<>> /\ exited

\* C10 (as claimed): when the directory is made but the file cannot be,
\* logPanic returns the empty path and the real error stream receives the
\* warning naming the file and then exactly one record, the logged error's.
C10_CreateFallbackOneRecord ==
    [][(RanLogPanic(call') /\ call'.fs = FsCreateFails)
        => /\ file' = ""
           /\ files' = files
           /\ Stderr' = Stderr \o Delta(ErrorBuffer, ErrorBuffer')
                        \o CreateWarning(LogPath(now))
                        \o LogBody(ErrorBuffer', call'.err)]_vars

=============================================================================
